---- MODULE Spec2Model ----
(***************************************************************************)
(* Model of javascript/api_payload_display.js of                           *)
(* sd-webui-api-payload-display.                                           *)
(*                                                                         *)
(* The file holds two top-level blocks.  Each block owns a private         *)
(* registeredElements set and registers its own onUiUpdate callback, so    *)
(* both binders run on every UI-refresh notification of the host.          *)
(*   block 1 (lines 1-31):  generate click -> MutationObserver on          *)
(*       #html_info_<mode> (childList, subtree) -> pullButton.click().     *)
(*   block 2 (lines 33-93): generate click -> MutationObserver on          *)
(*       #<mode>_results (childList) -> waitForData, pullButton.click(),   *)
(*       then updateJsonTree.                                              *)
(*                                                                         *)
(* The page runs on one event loop.  Tasks (host events, timer ticks) run  *)
(* one at a time, and after each task the microtask queue (mutation        *)
(* observer callbacks, promise reactions) is drained before the next task. *)
(***************************************************************************)
EXTENDS Integers, Sequences, FiniteSets, TLC

VARIABLES
    panels,        \* .api-payload-display panels present in the DOM
    tabs,          \* modes whose host tab (generate button, results, info) is rendered
    registered1,   \* registeredElements of block 1 (line 2)
    registered2,   \* registeredElements of block 2 (line 34)
    listeners,     \* per generate button: click listeners, in order of attachment
    observers,     \* every MutationObserver created so far, in order of creation
    polls,         \* every waitForData call so far, in order of creation
    microtasks,    \* the microtask queue of the event loop
    value,         \* per panel: value of the hidden textarea
    genPayload,    \* per mode: payload text of the host's latest generation
    pendingPull,   \* per panel: the payloads of the pull requests not answered yet, oldest first
    pullCount,     \* per panel: activations of the pull button by the extension
    wrapper,       \* per panel: children of .api-payload-json-tree, in order
    clicks,        \* per mode: clicks on the generate button
    scenario,      \* per mode: progress along click, mutation, write (history)
    refreshed,     \* whether a UI refresh ran since the page last gained an element (history)
    copy           \* per panel: the copy button in the panel's header

vars == <<panels, tabs, registered1, registered2, listeners, observers, polls,
          microtasks, value, genPayload, pendingPull, pullCount, wrapper,
          clicks, scenario, refreshed, copy>>

(***************************************************************************)
(* Bounds of the model.                                                    *)
(***************************************************************************)
MaxClicks == 2      \* generate clicks, both modes together
MaxPulls == 2       \* pull activations per panel
MaxCopies == 2      \* activations of the copy buttons, both panels together
MaxWidth == 3       \* children of a node of a generated payload
MaxDepth == 2       \* nesting of the arrays of a generated payload

(***************************************************************************)
(* The host page.                                                          *)
(***************************************************************************)
Modes == {"txt2img", "img2img"}

PullSuffix == "-api-payload-pull"

\* The panels in document order (the order querySelectorAll returns them).
PanelOrder == <<"txt2img_panel", "img2img_panel">>

PanelSet == {PanelOrder[i] : i \in 1..Len(PanelOrder)}

\* id of the .api-payload-pull button inside a panel, as its two parts.
PullButtonId(panel) ==
    IF panel = "txt2img_panel" THEN <<"txt2img", PullSuffix>>
                               ELSE <<"img2img", PullSuffix>>

\* The mode whose payload the host writes when a panel's pull button is activated.
HostMode(panel) == IF panel = "txt2img_panel" THEN "txt2img" ELSE "img2img"

(***************************************************************************)
(* Payload texts.  A text is the sequence of its lexical tokens, so that   *)
(* JSON.parse has something to parse.                                      *)
(***************************************************************************)
StringToks == {"\"prompt\"", "\"cat\"", "\"dog\"", "\"a\"", "\"x\"", "\"y\"", "\"z\""}

NumberToks == {"1", "2", "3"}

\* The string a string literal denotes.
StringOf(tok) ==
    CASE tok = "\"prompt\"" -> "prompt"
      [] tok = "\"cat\"" -> "cat"
      [] tok = "\"dog\"" -> "dog"
      [] tok = "\"a\"" -> "a"
      [] tok = "\"x\"" -> "x"
      [] tok = "\"y\"" -> "y"
      [] tok = "\"z\"" -> "z"

EmptyText == << >>

\* {"prompt":"cat"}
CatText == <<"{", "\"prompt\"", ":", "\"cat\"", "}">>

\* {"prompt":"dog"}
DogText == <<"{", "\"prompt\"", ":", "\"dog\"", "}">>

\* {"a":{"x":1,"y":2,"z":3}}
NestedText ==
    <<"{", "\"a\"", ":", "{", "\"x\"", ":", "1", ",", "\"y\"", ":", "2", ",",
      "\"z\"", ":", "3", "}", "}">>

\* {"prompt":    (cut short: not valid JSON)
BrokenText == <<"{", "\"prompt\"", ":">>

\* The payload texts a generation can have in the model.
Payloads == {CatText, DogText, BrokenText}

\* The generations of the text-to-image mode take every payload, those of
\* the image-to-image mode one.
PayloadsOf(m) == IF m = "txt2img" THEN Payloads ELSE {DogText}

\* Payloads of every shape within the bounds.  A shape <<c1, ..., cd>> is the
\* array of c1 elements whose first element is the array of shape
\* <<c2, ..., cd>> and whose other elements are the number 1.
Shapes == UNION {[1..d -> 0..MaxWidth] : d \in 1..MaxDepth}

RECURSIVE ShapeText(_)
ShapeText(shape) ==
    IF shape = << >>
    THEN <<"1">>
    ELSE IF Head(shape) = 0
         THEN <<"[", "]">>
         ELSE <<"[">> \o ShapeText(Tail(shape))
                \o [i \in 1..(2 * (Head(shape) - 1)) |->
                       IF i % 2 = 1 THEN "," ELSE "1"]
                \o <<"]">>

TreeTexts == {ShapeText(shape) : shape \in Shapes} \cup {NestedText, BrokenText}

(***************************************************************************)
(* JSON.parse (line 50), a recursive-descent parser over the tokens.       *)
(* A parsed value is a record [type, val, keys, elems]: keys and elems are *)
(* the member names and member values of an object, elems alone the        *)
(* elements of an array.                                                   *)
(***************************************************************************)
NoValue == [type |-> "none", val |-> "", keys |-> << >>, elems |-> << >>]

ParseFail == [ok |-> FALSE, node |-> NoValue, next |-> 0]

ParseOk(node, next) == [ok |-> TRUE, node |-> node, next |-> next]

StringValue(tok) ==
    [type |-> "string", val |-> StringOf(tok), keys |-> << >>, elems |-> << >>]

NumberValue(tok) ==
    [type |-> "number", val |-> tok, keys |-> << >>, elems |-> << >>]

ArrayValue(elems) ==
    [type |-> "array", val |-> "", keys |-> << >>, elems |-> elems]

ObjectValue(keys, elems) ==
    [type |-> "object", val |-> "", keys |-> keys, elems |-> elems]

\* Position of key k in keys, 0 when absent.
KeyIndex(keys, k) ==
    IF \E i \in 1..Len(keys) : keys[i] = k
    THEN CHOOSE i \in 1..Len(keys) : keys[i] = k
    ELSE 0

\* A repeated member name overwrites the earlier member in place.
PutKeys(keys, k) == IF KeyIndex(keys, k) = 0 THEN Append(keys, k) ELSE keys

PutElems(keys, elems, k, v) ==
    IF KeyIndex(keys, k) = 0
    THEN Append(elems, v)
    ELSE [elems EXCEPT ![KeyIndex(keys, k)] = v]

RECURSIVE ParseValue(_, _)
RECURSIVE ParseElements(_, _, _)
RECURSIVE ParseMembers(_, _, _, _)

ParseValue(t, i) ==
    IF i > Len(t) THEN ParseFail
    ELSE IF t[i] \in StringToks THEN ParseOk(StringValue(t[i]), i + 1)
    ELSE IF t[i] \in NumberToks THEN ParseOk(NumberValue(t[i]), i + 1)
    ELSE IF t[i] = "["
         THEN IF i + 1 <= Len(t) /\ t[i + 1] = "]"
              THEN ParseOk(ArrayValue(<< >>), i + 2)
              ELSE ParseElements(t, i + 1, << >>)
    ELSE IF t[i] = "{"
         THEN IF i + 1 <= Len(t) /\ t[i + 1] = "}"
              THEN ParseOk(ObjectValue(<< >>, << >>), i + 2)
              ELSE ParseMembers(t, i + 1, << >>, << >>)
    ELSE ParseFail

ParseElements(t, i, acc) ==
    LET r == ParseValue(t, i) IN
    IF ~r.ok \/ r.next > Len(t) THEN ParseFail
    ELSE IF t[r.next] = "," THEN ParseElements(t, r.next + 1, Append(acc, r.node))
    ELSE IF t[r.next] = "]" THEN ParseOk(ArrayValue(Append(acc, r.node)), r.next + 1)
    ELSE ParseFail

ParseMembers(t, i, keys, elems) ==
    IF i + 1 > Len(t) \/ t[i] \notin StringToks \/ t[i + 1] # ":" THEN ParseFail
    ELSE LET k == StringOf(t[i])
             r == ParseValue(t, i + 2)
         IN IF ~r.ok \/ r.next > Len(t) THEN ParseFail
            ELSE IF t[r.next] = ","
                 THEN ParseMembers(t, r.next + 1, PutKeys(keys, k),
                                   PutElems(keys, elems, k, r.node))
            ELSE IF t[r.next] = "}"
                 THEN ParseOk(ObjectValue(PutKeys(keys, k),
                                          PutElems(keys, elems, k, r.node)),
                              r.next + 1)
            ELSE ParseFail

\* JSON.parse(data): ok is FALSE where JSON.parse throws a SyntaxError.
JSONParse(text) ==
    LET r == ParseValue(text, 1) IN
    IF r.ok /\ r.next = Len(text) + 1
    THEN [ok |-> TRUE, value |-> r.node]
    ELSE [ok |-> FALSE, value |-> NoValue]

(***************************************************************************)
(* jsonTree.create and tree.expand (lines 50-54).  A tree node is a record *)
(* [label, type, val, childNodes, expanded]; nodes are created collapsed.  *)
(* create appends the new tree to the container it is given; expand        *)
(* expands the nodes that match the predicate it is given.                 *)
(***************************************************************************)
IsComplex(node) == node.type \in {"object", "array"}

RECURSIVE MakeNode(_, _)
MakeNode(label, v) ==
    [label |-> label, type |-> v.type, val |-> v.val,
     childNodes |->
        [i \in 1..Len(v.elems) |->
            MakeNode(IF v.type = "object" THEN v.keys[i] ELSE ToString(i - 1),
                     v.elems[i])],
     expanded |-> FALSE]

\* The root node jsonTree.create builds for a value.
TreeCreate(v) == MakeNode("", v)

\* ExpandPredicate selecting nodes of up to two children.
ExpandPredicateUpToTwo(node) == Len(node.childNodes) <= 2

\* The predicate handed to tree.expand (line 53).
ExpandPredicate(node) == Len(node.childNodes) < 2

\* tree.expand(predicate): expands the nodes the predicate selects and
\* leaves the others collapsed.
RECURSIVE TreeExpand(_)
TreeExpand(node) ==
    [node EXCEPT !.expanded = ExpandPredicate(node),
                 !.childNodes = [i \in 1..Len(node.childNodes) |->
                                    TreeExpand(node.childNodes[i])]]

\* jsonTree.create(value, wrapper) with the tree expanded: the children of
\* wrapper afterwards.
CreateInto(children, v) == Append(children, TreeExpand(TreeCreate(v)))

\* UpdateJsonTree creating the tree whatever JSON.parse did.
UpdateJsonTreeUnguarded(children, data) ==
    CreateInto(children, JSONParse(data).value)

\* updateJsonTree(wrapper, data), lines 48-55: the new children of wrapper,
\* or the unchanged children when JSON.parse throws.
UpdateJsonTree(children, data) ==
    IF JSONParse(data).ok
    THEN CreateInto(children, JSONParse(data).value)
    ELSE children

(***************************************************************************)
(* Selectors.                                                              *)
(***************************************************************************)
Null == "null"

RemoveFirst(s, x) ==
    IF \E i \in 1..Len(s) : s[i] = x
    THEN LET i == CHOOSE j \in 1..Len(s) :
                    s[j] = x /\ \A k \in 1..(j - 1) : s[k] # x
         IN SubSeq(s, 1, i - 1) \o SubSeq(s, i + 1, Len(s))
    ELSE s

\* pullButton.id.replace('-api-payload-pull', ''), lines 10 and 66.
ProcessType(panel) == RemoveFirst(PullButtonId(panel), PullSuffix)

GenerateId(m) == IF m = "txt2img" THEN "txt2img_generate" ELSE "img2img_generate"

GenerateIds == {GenerateId(m) : m \in Modes}

\* gradioApp().querySelector(processType === 'txt2img' ? '#txt2img_generate'
\* : '#img2img_generate'), lines 11-12 and 67-68.
QueryGenerate(processType) ==
    LET id == IF processType = <<"txt2img">> THEN "txt2img_generate"
                                            ELSE "img2img_generate"
    IN IF \E m \in tabs : GenerateId(m) = id THEN id ELSE Null

\* #html_info_<processType>.gradio-html (lines 18-19).
InfoElement(processType) == [kind |-> "info", of |-> processType]

\* #<processType>_results (lines 75-76).
ResultElement(processType) == [kind |-> "results", of |-> processType]

(***************************************************************************)
(* The copy button of a panel's header.  timers holds, for every revert    *)
(* timer not yet fired, the milliseconds left, oldest first; pending       *)
(* counts the clipboard writes not settled yet.                            *)
(***************************************************************************)
IdleLabel == "Copy"

CopiedLabel == "Copied!"

FailedLabel == "Failed to copy"

RevertDelay == 3000

\* The step, in milliseconds, by which the model lets time pass.
TimeStep == 1000

NewCopyButton ==
    [label |-> IdleLabel, success |-> FALSE, fail |-> FALSE, pending |-> 0,
     timers |-> << >>, clicks |-> 0, writes |-> 0]

(***************************************************************************)
(* Initial state: an empty page, nothing registered.                       *)
(***************************************************************************)
Init ==
    /\ panels = {}
    /\ tabs = {}
    /\ registered1 = {}
    /\ registered2 = {}
    /\ listeners = [g \in GenerateIds |-> << >>]
    /\ observers = << >>
    /\ polls = << >>
    /\ microtasks = << >>
    /\ value = [p \in PanelSet |-> EmptyText]
    /\ genPayload = [m \in Modes |-> EmptyText]
    /\ pendingPull = [p \in PanelSet |-> << >>]
    /\ pullCount = [p \in PanelSet |-> 0]
    /\ wrapper = [p \in PanelSet |-> << >>]
    /\ clicks = [m \in Modes |-> 0]
    /\ scenario = [m \in Modes |-> "start"]
    /\ refreshed = FALSE
    /\ copy = [p \in PanelSet |-> NewCopyButton]

(***************************************************************************)
(* The host renders a panel, or a tab with its generate button, result     *)
(* container and info element.                                             *)
(***************************************************************************)
HostAddPanel(panel) ==
    /\ microtasks = << >>
    /\ panel \notin panels
    /\ panels' = panels \cup {panel}
    /\ refreshed' = FALSE
    /\ UNCHANGED <<tabs, registered1, registered2, listeners, observers, polls,
                   microtasks, value, genPayload, pendingPull, pullCount,
                   wrapper, clicks, scenario, copy>>

HostAddTab(m) ==
    /\ microtasks = << >>
    /\ m \notin tabs
    /\ tabs' = tabs \cup {m}
    /\ refreshed' = FALSE
    /\ UNCHANGED <<panels, registered1, registered2, listeners, observers, polls,
                   microtasks, value, genPayload, pendingPull, pullCount,
                   wrapper, clicks, scenario, copy>>

(***************************************************************************)
(* onUiUpdate callbacks, lines 3-30 and 57-92.                             *)
(***************************************************************************)
\* BindPanel with registeredElements.add moved ahead of the check of line 14/70.
BindPanelEager(block, panel, st) ==
    IF panel \in st.reg THEN st
    ELSE LET generateButton == QueryGenerate(ProcessType(panel)) IN
         IF generateButton = Null THEN [st EXCEPT !.reg = @ \cup {panel}]
         ELSE [reg |-> st.reg \cup {panel},
               lis |-> [st.lis EXCEPT ![generateButton] =
                            Append(@, [block |-> block, panel |-> panel])]]

\* One pass of the loop body for one panel; st is [reg, lis].
BindPanel(block, panel, st) ==
    IF panel \in st.reg THEN st
    ELSE LET generateButton == QueryGenerate(ProcessType(panel)) IN
         IF generateButton = Null THEN st
         ELSE [reg |-> st.reg \cup {panel},
               lis |-> [st.lis EXCEPT ![generateButton] =
                            Append(@, [block |-> block, panel |-> panel])]]

\* for (const panel of panels), from the i-th panel of the document on.
RECURSIVE BindPanels(_, _, _)
BindPanels(block, i, st) ==
    IF i > Len(PanelOrder) THEN st
    ELSE IF PanelOrder[i] \notin panels THEN BindPanels(block, i + 1, st)
    ELSE BindPanels(block, i + 1, BindPanel(block, PanelOrder[i], st))

\* The host notifies a UI refresh: it runs the callbacks of both blocks.
UiUpdate ==
    /\ microtasks = << >>
    /\ LET s1 == BindPanels(1, 1, [reg |-> registered1, lis |-> listeners])
           s2 == BindPanels(2, 1, [reg |-> registered2, lis |-> s1.lis])
       IN /\ registered1' = s1.reg
          /\ registered2' = s2.reg
          /\ listeners' = s2.lis
    /\ refreshed' = TRUE
    /\ UNCHANGED <<panels, tabs, observers, polls, microtasks, value, genPayload,
                   pendingPull, pullCount, wrapper, clicks, scenario, copy>>

(***************************************************************************)
(* Click on a generate button: every listener attached to it runs, in the  *)
(* order of attachment (lines 15-27 and 72-88).  Each listener creates one *)
(* MutationObserver and connects it.                                       *)
(***************************************************************************)
TotalClicks == clicks["txt2img"] + clicks["img2img"]

\* NewObserver watching the txt2img elements whatever the listener's panel.
NewObserverOneTarget(listener) ==
    [block |-> listener.block,
     panel |-> listener.panel,
     target |-> IF listener.block = 1
                THEN InfoElement(<<"txt2img">>)
                ELSE ResultElement(<<"txt2img">>),
     connected |-> TRUE,
     runs |-> 0,
     poll |-> 0]

\* The observer a listener creates.  poll is the index in polls of the
\* waitForData call its callback made, 0 while there is none.
NewObserver(listener) ==
    [block |-> listener.block,
     panel |-> listener.panel,
     target |-> IF listener.block = 1
                THEN InfoElement(ProcessType(listener.panel))
                ELSE ResultElement(ProcessType(listener.panel)),
     connected |-> TRUE,
     runs |-> 0,
     poll |-> 0]

GenerateClick(m, payload) ==
    /\ microtasks = << >>
    /\ m \in tabs
    /\ TotalClicks < MaxClicks
    /\ LET attached == listeners[GenerateId(m)] IN
       /\ observers' = observers \o
              [i \in 1..Len(attached) |-> NewObserver(attached[i])]
       /\ scenario' = [scenario EXCEPT ![m] =
              IF @ = "start" /\ \E i \in 1..Len(attached) : attached[i].block = 2
              THEN "clicked" ELSE "off"]
    /\ clicks' = [clicks EXCEPT ![m] = @ + 1]
    /\ genPayload' = [genPayload EXCEPT ![m] = payload]
    /\ UNCHANGED <<panels, tabs, registered1, registered2, listeners, polls,
                   microtasks, value, pendingPull, pullCount, wrapper, refreshed, copy>>

(***************************************************************************)
(* The host changes the child list of a result container, or the subtree   *)
(* of an info element.  Every connected observer of that element gets its  *)
(* callback queued, in order of creation.                                  *)
(***************************************************************************)
Observing(element) ==
    {i \in 1..Len(observers) :
        observers[i].connected /\ observers[i].target = element}

RECURSIVE CallbacksFrom(_, _)
CallbacksFrom(i, element) ==
    IF i > Len(observers) THEN << >>
    ELSE IF i \in Observing(element)
         THEN <<[kind |-> "observer", idx |-> i]>> \o CallbacksFrom(i + 1, element)
         ELSE CallbacksFrom(i + 1, element)

HostMutate(kind, m) ==
    /\ microtasks = << >>
    /\ m \in tabs
    /\ LET element == [kind |-> kind, of |-> <<m>>] IN
       /\ \A p \in PanelSet :
            pullCount[p]
              + Cardinality({i \in Observing(element) : observers[i].panel = p})
              <= MaxPulls
       /\ microtasks' = CallbacksFrom(1, element)
    /\ scenario' = [scenario EXCEPT ![m] =
           IF @ = "clicked" /\ kind = "results" THEN "mutated" ELSE "off"]
    /\ UNCHANGED <<panels, tabs, registered1, registered2, listeners, observers,
                   polls, value, genPayload, pendingPull, pullCount, wrapper,
                   clicks, refreshed, copy>>

(***************************************************************************)
(* pullButton.click(), lines 24 and 83: the host takes the request and     *)
(* looks up the payload of the mode's latest generation; the answer is     *)
(* written to the hidden textarea later, by HostWrite.                     *)
(***************************************************************************)
HostPull(pending, panel) == Append(pending, genPayload[HostMode(panel)])

(***************************************************************************)
(* MutationObserver callback of block 1, lines 20-26.  The click listener  *)
(* names its second parameter observer (line 15); a listener is called     *)
(* with the event alone, so observer is undefined and line 25 throws a     *)
(* TypeError after the pull button was clicked.                            *)
(***************************************************************************)
\* An observer after line 25 of its callback ran.
AfterCallback1(obs) == [obs EXCEPT !.runs = @ + 1]

ObserverCallback1 ==
    /\ microtasks # << >>
    /\ Head(microtasks).kind = "observer"
    /\ observers[Head(microtasks).idx].block = 1
    /\ LET i == Head(microtasks).idx
           panel == observers[i].panel
       IN /\ pullCount' = [pullCount EXCEPT ![panel] = @ + 1]
          /\ pendingPull' = [pendingPull EXCEPT ![panel] = HostPull(@, panel)]
          /\ observers' = [observers EXCEPT ![i] = AfterCallback1(@)]
    /\ microtasks' = Tail(microtasks)
    /\ UNCHANGED <<panels, tabs, registered1, registered2, listeners, polls,
                   value, genPayload, wrapper, clicks, scenario, refreshed, copy>>

(***************************************************************************)
(* waitForData, lines 36-46, and the MutationObserver callback of block 2, *)
(* lines 78-87.                                                            *)
(***************************************************************************)
\* The poll waitForData starts: oldData is captured, the interval is set.
\* changed records whether the field was written with a value other than
\* oldData since (history).
NewPoll(panel, oldData) ==
    [panel |-> panel, oldData |-> oldData, active |-> TRUE, resolved |-> FALSE,
     data |-> EmptyText, outcome |-> "pending", changed |-> FALSE]

\* An observer after its callback ran: observer.disconnect(), line 86.
AfterCallback2(obs, poll) ==
    [obs EXCEPT !.connected = FALSE, !.runs = @ + 1, !.poll = poll]

ObserverCallback2 ==
    /\ microtasks # << >>
    /\ Head(microtasks).kind = "observer"
    /\ observers[Head(microtasks).idx].block = 2
    /\ LET i == Head(microtasks).idx
           panel == observers[i].panel
       IN /\ polls' = Append(polls, NewPoll(panel, value[panel]))
          /\ pullCount' = [pullCount EXCEPT ![panel] = @ + 1]
          /\ pendingPull' = [pendingPull EXCEPT ![panel] = HostPull(@, panel)]
          /\ observers' = [observers EXCEPT ![i] = AfterCallback2(@, Len(polls) + 1)]
    /\ microtasks' = Tail(microtasks)
    /\ UNCHANGED <<panels, tabs, registered1, registered2, listeners, value,
                   genPayload, wrapper, clicks, scenario, refreshed, copy>>

\* ValueDiffers with the comparison of line 40 left out.
ValueDiffersUnchecked(current, oldData) == TRUE

\* dataElement.value != oldData, line 40.
ValueDiffers(current, oldData) == current # oldData

\* ResolvedValue resolving with the captured baseline instead of the field.
ResolvedValueStale(current, oldData) == oldData

\* The value line 41 resolves the promise with.
ResolvedValue(current, oldData) == current

\* AfterResolve leaving the interval running (line 42 left out).
AfterResolveKeepsTimer(poll, current) ==
    [poll EXCEPT !.resolved = TRUE, !.data = ResolvedValue(current, poll.oldData)]

\* A poll after a tick that found the value changed, lines 41-42.
AfterResolve(poll, current) ==
    [poll EXCEPT !.resolved = TRUE, !.data = ResolvedValue(current, poll.oldData),
                 !.active = FALSE]

\* One tick of the interval of poll i, lines 39-44.
Tick(i) ==
    /\ microtasks = << >>
    /\ i \in 1..Len(polls)
    /\ polls[i].active
    /\ IF ValueDiffers(value[polls[i].panel], polls[i].oldData)
       THEN /\ polls' = [polls EXCEPT ![i] = AfterResolve(@, value[polls[i].panel])]
            /\ microtasks' = <<[kind |-> "then", idx |-> i]>>
       ELSE UNCHANGED <<polls, microtasks>>
    /\ UNCHANGED <<panels, tabs, registered1, registered2, listeners, observers,
                   value, genPayload, pendingPull, pullCount, wrapper, clicks,
                   scenario, refreshed, copy>>

\* dataPromise.then(data => updateJsonTree(wrapper, data)), line 84.
PromiseReaction ==
    /\ microtasks # << >>
    /\ Head(microtasks).kind = "then"
    /\ LET i == Head(microtasks).idx
           panel == polls[i].panel
           data == polls[i].data
       IN /\ wrapper' = [wrapper EXCEPT ![panel] = UpdateJsonTree(@, data)]
          /\ polls' = [polls EXCEPT ![i].outcome =
                 IF JSONParse(data).ok THEN "rendered" ELSE "rejected"]
    /\ microtasks' = Tail(microtasks)
    /\ UNCHANGED <<panels, tabs, registered1, registered2, listeners, observers,
                   value, genPayload, pendingPull, pullCount, clicks, scenario, refreshed, copy>>

(***************************************************************************)
(* The host answers the oldest pull request of a panel: it writes the      *)
(* payload into the panel's hidden textarea.                               *)
(***************************************************************************)
HostWrite(panel) ==
    /\ microtasks = << >>
    /\ pendingPull[panel] # << >>
    /\ pendingPull' = [pendingPull EXCEPT ![panel] = Tail(@)]
    /\ value' = [value EXCEPT ![panel] = Head(pendingPull[panel])]
    /\ polls' = [i \in 1..Len(polls) |->
           IF polls[i].panel = panel /\ polls[i].active
              /\ Head(pendingPull[panel]) # polls[i].oldData
           THEN [polls[i] EXCEPT !.changed = TRUE]
           ELSE polls[i]]
    /\ scenario' = [scenario EXCEPT ![HostMode(panel)] =
           IF @ = "mutated" THEN "written" ELSE "off"]
    /\ UNCHANGED <<panels, tabs, registered1, registered2, listeners, observers,
                   microtasks, genPayload, pullCount, wrapper, clicks, refreshed, copy>>

Next ==
    \/ \E panel \in PanelSet : HostAddPanel(panel)
    \/ \E m \in Modes : HostAddTab(m)
    \/ UiUpdate
    \/ \E m \in Modes : \E payload \in PayloadsOf(m) : GenerateClick(m, payload)
    \/ \E kind \in {"info", "results"}, m \in Modes : HostMutate(kind, m)
    \/ ObserverCallback1
    \/ ObserverCallback2
    \/ \E i \in 1..Len(polls) : Tick(i)
    \/ PromiseReaction
    \/ \E panel \in PanelSet : HostWrite(panel)

Spec == Init /\ [][Next]_vars

(***************************************************************************)
(* Scheduling.  The event loop runs every queued microtask, and an         *)
(* interval that has not been cleared keeps ticking.  A poll is started by *)
(* a block-2 observer, one per generate click, so MaxClicks bounds them.   *)
(***************************************************************************)
Fairness ==
    /\ WF_vars(ObserverCallback1)
    /\ WF_vars(ObserverCallback2)
    /\ WF_vars(PromiseReaction)
    /\ \A i \in 1..MaxClicks : WF_vars(Tick(i))

\* The generations of the txt2img panel, whose payloads are two texts that
\* parse.
NextPoll ==
    \/ HostAddPanel("txt2img_panel")
    \/ HostAddTab("txt2img")
    \/ UiUpdate
    \/ \E payload \in {CatText, DogText} : GenerateClick("txt2img", payload)
    \/ \E kind \in {"info", "results"} : HostMutate(kind, "txt2img")
    \/ ObserverCallback1
    \/ ObserverCallback2
    \/ \E i \in 1..Len(polls) : Tick(i)
    \/ PromiseReaction
    \/ HostWrite("txt2img_panel")

FairSpec == Init /\ [][NextPoll]_vars /\ Fairness

(***************************************************************************)
(* One generation on the txt2img panel, with a payload of any shape.       *)
(***************************************************************************)
NextTree ==
    \/ HostAddPanel("txt2img_panel")
    \/ HostAddTab("txt2img")
    \/ UiUpdate
    \/ \E text \in TreeTexts : TotalClicks = 0 /\ GenerateClick("txt2img", text)
    \/ \E kind \in {"info", "results"} : HostMutate(kind, "txt2img")
    \/ ObserverCallback1
    \/ ObserverCallback2
    \/ \E i \in 1..Len(polls) : Tick(i)
    \/ PromiseReaction
    \/ HostWrite("txt2img_panel")

SpecTree == Init /\ [][NextTree]_vars

(***************************************************************************)
(* The copy control.  The header of a panel gets one copy button the first *)
(* time the panel is registered.  A click writes the panel's raw text to   *)
(* the clipboard; the write settles later, as fulfilled or as rejected.    *)
(***************************************************************************)
HasCopyButton(panel) == panel \in registered2

TotalCopies == copy["txt2img_panel"].clicks + copy["img2img_panel"].clicks

\* The button after a click: one clipboard write is under way.
AfterCopyClick(button) ==
    [button EXCEPT !.clicks = @ + 1, !.writes = @ + 1, !.pending = @ + 1]

\* The button after the clipboard write was fulfilled: the revert timer is set.
AfterCopySuccess(button) ==
    [button EXCEPT !.pending = @ - 1, !.label = CopiedLabel, !.success = TRUE,
                   !.fail = FALSE, !.timers = Append(@, RevertDelay)]

\* The button after the clipboard write was rejected.
AfterCopyFailure(button) ==
    [button EXCEPT !.pending = @ - 1, !.label = FailedLabel, !.success = FALSE,
                   !.fail = TRUE]

\* AfterRevert clearing both visual states.
AfterRevertClearsFail(button) ==
    [button EXCEPT !.label = IdleLabel, !.success = FALSE, !.fail = FALSE,
                   !.timers = Tail(@)]

\* The button after its oldest revert timer fired.
AfterRevert(button) ==
    [button EXCEPT !.label = IdleLabel, !.success = FALSE, !.timers = Tail(@)]

CopyFrame ==
    UNCHANGED <<panels, tabs, registered1, registered2, listeners, observers, polls,
                microtasks, value, genPayload, pendingPull, pullCount, wrapper,
                clicks, scenario, refreshed>>

CopyClick(panel) ==
    /\ microtasks = << >>
    /\ HasCopyButton(panel)
    /\ TotalCopies < MaxCopies
    /\ copy' = [copy EXCEPT ![panel] = AfterCopyClick(@)]
    /\ CopyFrame

ClipboardFulfil(panel) ==
    /\ microtasks = << >>
    /\ copy[panel].pending > 0
    /\ copy' = [copy EXCEPT ![panel] = AfterCopySuccess(@)]
    /\ CopyFrame

ClipboardReject(panel) ==
    /\ microtasks = << >>
    /\ copy[panel].pending > 0
    /\ copy' = [copy EXCEPT ![panel] = AfterCopyFailure(@)]
    /\ CopyFrame

RevertTimer(panel) ==
    /\ microtasks = << >>
    /\ copy[panel].timers # << >>
    /\ Head(copy[panel].timers) = 0
    /\ copy' = [copy EXCEPT ![panel] = AfterRevert(@)]
    /\ CopyFrame

\* Time passes by one step; a timer that is due fires first.
TimePasses ==
    /\ microtasks = << >>
    /\ \E p \in PanelSet : copy[p].timers # << >>
    /\ \A p \in PanelSet : \A i \in 1..Len(copy[p].timers) : copy[p].timers[i] > 0
    /\ copy' = [p \in PanelSet |->
           [copy[p] EXCEPT !.timers =
               [i \in 1..Len(copy[p].timers) |-> copy[p].timers[i] - TimeStep]]]
    /\ CopyFrame

\* The copy control shares no state with the generation flow; it is
\* explored together with the registration of the panels.
NextCopy ==
    \/ \E panel \in PanelSet : HostAddPanel(panel)
    \/ \E m \in Modes : HostAddTab(m)
    \/ UiUpdate
    \/ \E panel \in PanelSet : CopyClick(panel)
    \/ \E panel \in PanelSet : ClipboardFulfil(panel)
    \/ \E panel \in PanelSet : ClipboardReject(panel)
    \/ \E panel \in PanelSet : RevertTimer(panel)
    \/ TimePasses

SpecCopy == Init /\ [][NextCopy]_vars

(***************************************************************************)
(* Counting helpers for the properties below.                              *)
(***************************************************************************)
\* The click listeners block `block` attached on behalf of `panel`.
ListenersOf(block, panel) ==
    {<<g, i>> \in GenerateIds \X (1..(2 * Len(PanelOrder))) :
        /\ i <= Len(listeners[g])
        /\ listeners[g][i] = [block |-> block, panel |-> panel]}

PollsOf(panel) == {i \in 1..Len(polls) : polls[i].panel = panel}

RenderedPollsOf(panel) == {i \in PollsOf(panel) : polls[i].outcome = "rendered"}

\* The observers of block 2 whose change-detection cycle is under way:
\* connected, or disconnected with the poll they started still ticking.
ActiveCycles(panel) ==
    {i \in 1..Len(observers) :
        /\ observers[i].block = 2
        /\ observers[i].panel = panel
        /\ \/ observers[i].connected
           \/ observers[i].poll # 0 /\ polls[observers[i].poll].active}

PanelOfMode(m) == IF m = "txt2img" THEN "txt2img_panel" ELSE "img2img_panel"

(***************************************************************************)
(* C1.  The extension attaches at most one click listener to a generate    *)
(* control on behalf of one panel, whatever the sequence of UI refreshes.  *)
(* The two blocks of the file each attach their own.                       *)
(***************************************************************************)
C1_AtMostOneListenerPerPanel ==
    \A panel \in PanelSet :
        Cardinality(ListenersOf(1, panel) \cup ListenersOf(2, panel)) <= 1

(***************************************************************************)
(* C2.  Every mutation observer a generate click creates reacts at most    *)
(* once: after its callback ran it is disconnected and never runs again.   *)
(***************************************************************************)
C2_ObserverReactsOnce ==
    \A i \in 1..Len(observers) :
        /\ observers[i].runs <= 1
        /\ observers[i].runs = 1 => ~observers[i].connected

(***************************************************************************)
(* C3.  Per panel at most one change-detection cycle is active at a time,  *)
(* also when generate is clicked again before the earlier cycle finished.  *)
(***************************************************************************)
C3_OneActiveCyclePerPanel ==
    \A panel \in PanelSet : Cardinality(ActiveCycles(panel)) <= 1

(***************************************************************************)
(* C4.  A waitForData promise resolves only at a tick at which the field   *)
(* differs from the captured baseline; it resolves with the field's value  *)
(* at that tick, never with the baseline, and never before a value other   *)
(* than the baseline was written to the field.                             *)
(***************************************************************************)
C4_ResolvedPollsSound ==
    \A i \in 1..Len(polls) :
        polls[i].resolved =>
            /\ polls[i].data # polls[i].oldData
            /\ polls[i].changed
            /\ ~polls[i].active

C4_ResolveStep ==
    \A i \in 1..Len(polls) :
        (~polls[i].resolved /\ polls'[i].resolved) =>
            /\ value[polls[i].panel] # polls[i].oldData
            /\ polls'[i].data = value[polls[i].panel]
            /\ polls'[i].oldData = polls[i].oldData
            /\ value' = value

C4_ResolvesWithNewValueOnly ==
    [](C4_ResolvedPollsSound) /\ [][C4_ResolveStep]_vars

\* A poll that saw the field go from empty to {"prompt":"cat"} and resolved.
C4_Witness ==
    \E i \in 1..Len(polls) :
        /\ polls[i].resolved
        /\ polls[i].oldData = EmptyText
        /\ polls[i].data = CatText

(***************************************************************************)
(* C5.  Whenever the extension activates a panel's pull control, a poll on *)
(* that panel's field has been armed for it first: there are never more    *)
(* pull activations than polls.                                            *)
(***************************************************************************)
C5_PollArmedBeforeEveryPull ==
    \A panel \in PanelSet : pullCount[panel] <= Cardinality(PollsOf(panel))

(***************************************************************************)
(* C6.  One generate click on a registered panel, then one child-list      *)
(* mutation of the mode's result container, then the write of a valid text *)
(* v to the hidden field: exactly one pull activation, exactly one poll,   *)
(* resolved with v, and exactly one tree render, of the parse of v.        *)
(***************************************************************************)
Quiet(panel) ==
    /\ microtasks = << >>
    /\ \A i \in PollsOf(panel) :
          polls[i].active => ~ValueDiffers(value[panel], polls[i].oldData)

C6_EndToEnd ==
    \A m \in Modes :
        LET panel == PanelOfMode(m) IN
        /\ scenario[m] \in {"clicked", "mutated", "written"} =>
              /\ pullCount[panel] <= 1
              /\ Cardinality(PollsOf(panel)) <= 1
              /\ Len(wrapper[panel]) <= 1
        /\ (scenario[m] = "written" /\ JSONParse(value[panel]).ok /\ Quiet(panel)) =>
              /\ pullCount[panel] = 1
              /\ \E i \in 1..Len(polls) :
                    /\ PollsOf(panel) = {i}
                    /\ polls[i].resolved
                    /\ polls[i].data = value[panel]
                    /\ polls[i].outcome = "rendered"
              /\ wrapper[panel] =
                    <<TreeExpand(TreeCreate(JSONParse(value[panel]).value))>>

C6_Witness ==
    /\ scenario["txt2img"] = "written"
    /\ value["txt2img_panel"] = CatText
    /\ Quiet("txt2img_panel")
    /\ Len(wrapper["txt2img_panel"]) = 1

(***************************************************************************)
(* C7.  Liveness, in the form a finite run decides: once the host has      *)
(* mutated the result container after every generate click and answered    *)
(* every pull activation, and every tick and callback that can still do    *)
(* something has run, the latest generation on a registered panel has been *)
(* rendered from its own poll.  From such a state nothing more happens     *)
(* until the next generation, so a poll still pending there stays pending. *)
(* Stated for the runs in which block 1 never clicked the pull button.     *)
(***************************************************************************)
Block2ObserversOf(panel) ==
    {i \in 1..Len(observers) : observers[i].block = 2 /\ observers[i].panel = panel}

\* No observer of block 1 has clicked the panel's pull button.
Block1Idle(panel) ==
    \A i \in 1..Len(observers) :
        (observers[i].block = 1 /\ observers[i].panel = panel) => observers[i].runs = 0

Settled(panel) ==
    /\ Quiet(panel)
    /\ pendingPull[panel] = << >>
    /\ \A i \in Block2ObserversOf(panel) : ~observers[i].connected

LatestPollOf(panel) ==
    observers[CHOOSE i \in Block2ObserversOf(panel) :
                 \A j \in Block2ObserversOf(panel) : j <= i].poll

C7_EveryGenerationRendered ==
    \A m \in Modes :
        LET panel == PanelOfMode(m) IN
        (/\ Block2ObserversOf(panel) # {}
         /\ Block1Idle(panel)
         /\ Settled(panel)
         /\ JSONParse(genPayload[m]).ok) =>
            /\ polls[LatestPollOf(panel)].outcome = "rendered"
            /\ polls[LatestPollOf(panel)].data = genPayload[m]

(***************************************************************************)
(* C8.  After a successful render the panel's tree region holds exactly    *)
(* one tree, the one of the value just rendered; trees of earlier          *)
(* generations are gone.                                                   *)
(***************************************************************************)
C8_RegionHoldsLatestTreeOnly ==
    \A panel \in PanelSet :
        RenderedPollsOf(panel) # {} =>
            \E i \in RenderedPollsOf(panel) :
                wrapper[panel] =
                    <<TreeExpand(TreeCreate(JSONParse(polls[i].data).value))>>

(***************************************************************************)
(* C9.  When a poll resolves with text that is not valid JSON the render   *)
(* step fails: the step leaves the tree region, the registration sets and  *)
(* the listeners as they were, and the poll is recorded as rejected; a     *)
(* poll is recorded as rendered only for text that parses.  Registrations  *)
(* and listeners are never removed, so later generations are processed.    *)
(***************************************************************************)
C9_OutcomesMatchParse ==
    \A i \in 1..Len(polls) :
        /\ polls[i].outcome = "rejected" => ~JSONParse(polls[i].data).ok
        /\ polls[i].outcome = "rendered" => JSONParse(polls[i].data).ok
        /\ Len(wrapper[polls[i].panel]) = Cardinality(RenderedPollsOf(polls[i].panel))

C9_RenderStep ==
    \A i \in 1..Len(polls) :
        (polls[i].outcome = "pending" /\ polls'[i].outcome # "pending"
         /\ ~JSONParse(polls[i].data).ok) =>
            /\ polls'[i].outcome = "rejected"
            /\ wrapper' = wrapper
            /\ registered1' = registered1
            /\ registered2' = registered2
            /\ listeners' = listeners

C9_Kept ==
    /\ registered1 \subseteq registered1'
    /\ registered2 \subseteq registered2'
    /\ \A g \in GenerateIds :
          SubSeq(listeners'[g], 1, Len(listeners[g])) = listeners[g]

C9_ParseFailureLeavesPanelIntact ==
    [](C9_OutcomesMatchParse) /\ [][C9_RenderStep /\ C9_Kept]_vars

\* A rejected render followed by a successful render on the same panel.
C9_Witness ==
    \E i, j \in 1..Len(polls) :
        /\ i < j
        /\ polls[i].panel = polls[j].panel
        /\ polls[i].outcome = "rejected"
        /\ polls[i].data = BrokenText
        /\ wrapper[polls[i].panel] # << >>
        /\ polls[j].outcome = "rendered"

(***************************************************************************)
(* C10.  A panel whose generate control is absent at a UI refresh is       *)
(* skipped: no listener, not registered.  At the first refresh at which    *)
(* the control exists it gets its listener and is registered.  A panel is  *)
(* registered only if its listener is attached.                            *)
(***************************************************************************)
C10_RegisteredHasListener ==
    \A panel \in PanelSet :
        /\ panel \in registered1 <=> ListenersOf(1, panel) # {}
        /\ panel \in registered2 <=> ListenersOf(2, panel) # {}

C10_RefreshStep ==
    UiUpdate =>
        \A panel \in panels :
            IF QueryGenerate(ProcessType(panel)) = Null
            THEN /\ panel \notin registered1'
                 /\ panel \notin registered2'
                 /\ ListenersOf(1, panel)' = {}
                 /\ ListenersOf(2, panel)' = {}
            ELSE /\ panel \in registered1'
                 /\ panel \in registered2'
                 /\ Cardinality(ListenersOf(1, panel)') = 1
                 /\ Cardinality(ListenersOf(2, panel)') = 1

C10_SkippedUntilControlExists ==
    [](C10_RegisteredHasListener) /\ [][C10_RefreshStep]_vars

\* A refresh has passed over the image-to-image panel, whose generate control
\* is missing, while the text-to-image panel is bound.
C10_Witness ==
    /\ refreshed
    /\ "img2img_panel" \in panels
    /\ "img2img" \notin tabs
    /\ "img2img_panel" \notin registered2
    /\ "txt2img_panel" \in registered2

(***************************************************************************)
(* C11.  A copy whose clipboard write succeeds sets the label to           *)
(* "Copied!", sets the success state and clears the fail state; when the   *)
(* 3000 ms of the revert delay have passed, the revert sets the idle label *)
(* and clears the success state, and leaves the fail state as it was.      *)
(***************************************************************************)
C11_CopiedState ==
    \A p \in PanelSet :
        /\ copy[p].label = CopiedLabel => copy[p].success /\ ~copy[p].fail
        /\ copy[p].success => copy[p].timers # << >>
        /\ \A i \in 1..Len(copy[p].timers) :
              copy[p].timers[i] \in 0..RevertDelay

C11_Steps ==
    \A p \in PanelSet :
        /\ ClipboardFulfil(p) =>
              /\ copy'[p].label = CopiedLabel
              /\ copy'[p].success
              /\ ~copy'[p].fail
              /\ copy'[p].timers = Append(copy[p].timers, RevertDelay)
        /\ RevertTimer(p) =>
              /\ copy'[p].label = IdleLabel
              /\ ~copy'[p].success
              /\ copy'[p].fail = copy[p].fail
        \* a revert timer runs down by the passing of time alone
        /\ Len(copy'[p].timers) >= Len(copy[p].timers) =>
              \A i \in 1..Len(copy[p].timers) :
                  copy'[p].timers[i] \in {copy[p].timers[i], copy[p].timers[i] - TimeStep}

C11_CopySuccessReverts == [](C11_CopiedState) /\ [][C11_Steps]_vars

\* A successful copy has been reverted; a copy rejected in between has left
\* the fail state set, and the revert has not touched it.
C11_Witness ==
    \E p \in PanelSet :
        /\ copy[p].clicks = 2
        /\ copy[p].pending = 0
        /\ copy[p].timers = << >>
        /\ copy[p].label = IdleLabel
        /\ ~copy[p].success
        /\ copy[p].fail

(***************************************************************************)
(* C12.  After a rejected copy the label "Failed to copy", with the fail   *)
(* state, stays until another activation: no timer reverts                 *)
(* it.  The revert timer of an earlier successful copy is not cancelled by *)
(* the rejection, and resets the label when it fires.                      *)
(***************************************************************************)
C12_FailedLabelStays ==
    [][\A p \in PanelSet :
          (copy[p].label = FailedLabel /\ copy[p].pending = 0) =>
              copy'[p].label = FailedLabel]_vars

(***************************************************************************)
(* C13.  After a render every node of the tree is expanded exactly when it *)
(* has fewer than two immediate children: nodes of 0 or 1 children are     *)
(* selected, nodes of 2 or more are not.  A root with one child that has   *)
(* three children is expanded, and that child stays collapsed.             *)
(***************************************************************************)
RECURSIVE NodesOf(_)
NodesOf(node) ==
    {node} \cup UNION {NodesOf(node.childNodes[i]) : i \in 1..Len(node.childNodes)}

C14_PullsAtMostClicks ==
    \A panel \in PanelSet : pullCount[panel] <= clicks[HostMode(panel)]

(***************************************************************************)
(* C15.  A poll resolves at most once, and the tick that resolves it       *)
(* clears its timer: a resolved poll ticks no more and keeps its value.    *)
(* A timer is cleared only by a tick that finds the field different from   *)
(* the baseline, so a poll whose field never differs at a tick never       *)
(* resolves and keeps its timer.  With the timers scheduled fairly, a poll *)
(* whose field differs from the baseline either terminates or sees the     *)
(* field return to the baseline before its tick.                           *)
(***************************************************************************)
C15_TimerState ==
    \A i \in 1..Len(polls) : polls[i].active <=> ~polls[i].resolved

C15_Steps ==
    \A i \in 1..Len(polls) :
        /\ polls[i].resolved =>
              /\ polls'[i].resolved
              /\ ~polls'[i].active
              /\ polls'[i].data = polls[i].data
              /\ ~ENABLED Tick(i)
        /\ (polls[i].active /\ ~polls'[i].active) =>
              /\ value[polls[i].panel] # polls[i].oldData
              /\ polls'[i].resolved
              /\ Tick(i)
        /\ (polls[i].active /\ value[polls[i].panel] = polls[i].oldData) =>
              polls'[i].active /\ ~polls'[i].resolved

C15_Differs(i) ==
    /\ i \in 1..Len(polls)
    /\ polls[i].active
    /\ value[polls[i].panel] # polls[i].oldData

C15_Terminated(i) == i \in 1..Len(polls) /\ ~polls[i].active /\ polls[i].resolved

C15_BackAtBaseline(i) ==
    /\ i \in 1..Len(polls)
    /\ polls[i].active
    /\ value[polls[i].panel] = polls[i].oldData

C15_PollTerminates ==
    /\ [](C15_TimerState)
    /\ [][C15_Steps]_vars
    /\ \A i \in 1..MaxClicks :
          C15_Differs(i) ~> (C15_Terminated(i) \/ C15_BackAtBaseline(i))

\* On one panel, a poll that has resolved and a poll whose field equals its
\* baseline and whose timer is still set.
C15_Witness ==
    \E i, j \in 1..Len(polls) :
        /\ polls[i].panel = polls[j].panel
        /\ polls[i].resolved /\ ~polls[i].active
        /\ polls[j].active /\ ~polls[j].resolved
        /\ value[polls[j].panel] = polls[j].oldData
        /\ microtasks = << >>

(***************************************************************************)
(* C16.  A panel has rendered at most as many trees as the host has        *)
(* written values into its hidden field, and at most one of its polls is   *)
(* unresolved at a time.  A generation started while the poll of an        *)
(* earlier one is unresolved adds a second poll with the same baseline,    *)
(* and one write resolves both.                                            *)
(***************************************************************************)
HostWrites(panel) == pullCount[panel] - Len(pendingPull[panel])

UnresolvedPollsOf(panel) == {i \in PollsOf(panel) : ~polls[i].resolved}

C16_RendersAtMostWrites ==
    \A panel \in PanelSet :
        Cardinality(RenderedPollsOf(panel)) <= HostWrites(panel)

C16_OneUnresolvedPoll ==
    \A panel \in PanelSet : Cardinality(UnresolvedPollsOf(panel)) <= 1

C16_OneRenderPerWrite == C16_RendersAtMostWrites /\ C16_OneUnresolvedPoll

(***************************************************************************)
(* C17.  The two panels are independent.  Every listener sits on the       *)
(* generate control of the mode named by its panel's pull-button id, and   *)
(* every observer watches an element of that mode.  A generate click, a    *)
(* mutation, a pull, a tick of a poll or a render for one mode leaves the  *)
(* other panel's observers, unresolved polls, pull count and tree region   *)
(* as they were, and queues callbacks of its own panel only.               *)
(***************************************************************************)
OtherPanel(panel) ==
    IF panel = "txt2img_panel" THEN "img2img_panel" ELSE "txt2img_panel"

PanelView(panel) ==
    LET Mine(x) == x.panel = panel
        Waiting(x) == x.panel = panel /\ ~x.resolved
    IN [observers |-> SelectSeq(observers, Mine),
        polls |-> SelectSeq(polls, Waiting),
        pullCount |-> pullCount[panel],
        wrapper |-> wrapper[panel]]

\* The steps of the generation flow of mode m.
StepOfMode(m) ==
    LET panel == PanelOfMode(m) IN
    \/ \E payload \in PayloadsOf(m) : GenerateClick(m, payload)
    \/ \E kind \in {"info", "results"} : HostMutate(kind, m)
    \/ HostWrite(panel)
    \/ /\ microtasks # << >>
       /\ Head(microtasks).kind = "observer"
       /\ observers[Head(microtasks).idx].panel = panel
       /\ ObserverCallback1 \/ ObserverCallback2
    \/ \E i \in 1..Len(polls) : polls[i].panel = panel /\ Tick(i)
    \/ /\ microtasks # << >>
       /\ Head(microtasks).kind = "then"
       /\ polls[Head(microtasks).idx].panel = panel
       /\ PromiseReaction

C17_Wiring ==
    /\ \A m \in Modes : \A k \in 1..Len(listeners[GenerateId(m)]) :
          ProcessType(listeners[GenerateId(m)][k].panel) = <<m>>
    /\ \A i \in 1..Len(observers) :
          observers[i].target.of = ProcessType(observers[i].panel)

C17_Frame ==
    \A m \in Modes :
        StepOfMode(m) =>
            /\ PanelView(OtherPanel(PanelOfMode(m)))' =
                  PanelView(OtherPanel(PanelOfMode(m)))
            /\ \A k \in 1..Len(microtasks') :
                  IF microtasks'[k].kind = "observer"
                  THEN observers'[microtasks'[k].idx].panel = PanelOfMode(m)
                  ELSE polls'[microtasks'[k].idx].panel = PanelOfMode(m)

C17_PanelsIndependent == [](C17_Wiring) /\ [][C17_Frame]_vars

\* A whole generation has run on the txt2img panel while the img2img panel,
\* clicked as well, still waits for its mutation, untouched.
C17_Witness ==
    /\ wrapper["txt2img_panel"] # << >>
    /\ wrapper["img2img_panel"] = << >>
    /\ pullCount["img2img_panel"] = 0
    /\ PanelView("img2img_panel").polls = << >>
    /\ \E i \in 1..Len(observers) :
          /\ observers[i].panel = "img2img_panel"
          /\ observers[i].block = 2
          /\ observers[i].connected
          /\ observers[i].runs = 0

====
